---- MODULE Spec2Model ----
(***************************************************************************)
(* Model of the QGIS plugin repository tools.                              *)
(*                                                                         *)
(*   install_plugins.py : the Installer (main, install_plugin, ...)        *)
(*   create_index.py    : Metadata Extractor, Icon Extractor and the       *)
(*                        Catalog Builder (HTML and XML passes)            *)
(*                                                                         *)
(* The two scripts share no run-time state.  Spec is the Installer run,    *)
(* SpecCat a Catalog Builder run, SpecIcon the Icon Extractor applied to   *)
(* archives whose entry lists are drawn from a bounded pool.               *)
(***************************************************************************)
EXTENDS Naturals, Sequences, FiniteSets, TLC

VARIABLES
    \* ---- Installer (install_plugins.py) ----
    pc,            \* position in main / install_plugin
    platform,      \* platform.system()
    appdata,       \* os.getenv("APPDATA"): None, or <<the value>>
    repoPlugins,   \* <repo>/plugins: whether it exists, and its listing
    targetExists,  \* qgis_plugins_dir.exists()
    fs,            \* the tree under qgis_plugins_dir: a set of nodes
    fs0,           \* history: fs when the run started
    fsBegin,       \* history: fs when the install of the current archive began
    plugin_zips,   \* main: the list returned by find_plugin_zips
    idx,           \* main: position of the for loop in plugin_zips
    installed,     \* main: counter
    failed,        \* main: counter
    exitStatus,    \* None while running, else <<the process exit status>>
    temp_dir,      \* install_plugin: local temp_dir (None after the whole-dir move)
    final_dir,     \* install_plugin: local final_dir (None before it is set)
    plugin_dir,    \* install_plugin: local plugin_dir (None in the else branch)
    faults,        \* environment: the I/O errors injected so far
    raisedAt,      \* install_plugin: "", or the step whose exception is propagating
    log,           \* history: what the run has done, in order
    \* ---- Catalog Builder (create_index.py) ----
    cpc,           \* position in __main__: the XML pass, then the HTML pass
    catDir,        \* PLUGINS_DIR: whether it exists, and the files in it
    cidx,          \* position of the pass in sorted(os.listdir(plugins_path))
    plugins_data,  \* generate_plugins_xml: plugins_data
    xmlOut,        \* plugins.xml: whether written, and its records in order
    plugins,       \* generate_index_html: plugins
    htmlOut,       \* index.html: whether written, and its cards in order
    iconsDir,      \* ICONS_DIR: a set of [file, data]
    iconLog        \* history: the icon files written, in order

instVars == <<pc, platform, appdata, repoPlugins, targetExists, fs, fs0, fsBegin,
              plugin_zips,
              idx, installed, failed, exitStatus, temp_dir, final_dir,
              plugin_dir, faults, raisedAt, log>>

catVars == <<cpc, catDir, cidx, plugins_data, xmlOut, plugins, htmlOut, iconsDir,
             iconLog>>

vars == <<instVars, catVars>>

\* Python's None, for the variables that otherwise hold a sequence
None == <<>>

(***************************************************************************)
(* Bounds                                                                  *)
(***************************************************************************)
\* longest listing of <repo>/plugins that Init draws
MaxListing == 2
\* most I/O errors (a damaged archive, a failing rmtree or move) in one run
MaxFaults == 1

(***************************************************************************)
(* The file tree under the target root.  A node is a directory or a file   *)
(* at a path (a sequence of names, relative to qgis_plugins_dir).          *)
(***************************************************************************)
Dir(p) == [path |-> p, kind |-> "dir", data |-> ""]
File(p, d) == [path |-> p, kind |-> "file", data |-> d]

IsPrefix(p, q) == Len(p) <= Len(q) /\ SubSeq(q, 1, Len(p)) = p

PathExists(tree, p) == \E n \in tree : n.path = p
PathIsDir(tree, p) == \E n \in tree : n.path = p /\ n.kind = "dir"
PathIsFile(tree, p) == \E n \in tree : n.path = p /\ n.kind = "file"

\* the nodes at or below p
Under(tree, p) == {n \in tree : IsPrefix(p, n.path)}

\* the tree below p, with paths made relative to p (p itself left out)
Subtree(tree, p) ==
    {[n EXCEPT !.path = SubSeq(n.path, Len(p) + 1, Len(n.path))] :
        n \in {m \in tree : IsPrefix(p, m.path) /\ m.path # p}}

\* shutil.rmtree(p) on a directory
Rmtree(tree, p) == tree \ Under(tree, p)

\* shutil.rmtree raises NotADirectoryError on a plain file
RmtreeRaises(tree, p) == PathIsFile(tree, p)

(***************************************************************************)
(* zipfile.ZipFile.extractall(temp_dir): the members are extracted in      *)
(* archive order into whatever temp_dir already holds.  A directory member *)
(* is created with its parents; a file member creates its parents and      *)
(* overwrites a file of the same path.  A member whose path, or a parent   *)
(* of it, is taken by a node of the other kind raises.                     *)
(***************************************************************************)
Member(p, k, d) == [path |-> p, kind |-> k, data |-> d]

MemberRaises(tree, base, m) ==
    LET full == base \o m.path
    IN  \/ \E k \in 1..(Len(full) - 1) : PathIsFile(tree, SubSeq(full, 1, k))
        \/ m.kind = "dir" /\ PathIsFile(tree, full)
        \/ m.kind = "file" /\ PathIsDir(tree, full)

ExtractMember(tree, base, m) ==
    LET full == base \o m.path
        parents == {Dir(SubSeq(full, 1, k)) : k \in 1..(Len(full) - 1)}
    IN  IF m.kind = "dir"
        THEN tree \cup parents \cup {Dir(full)}
        ELSE {n \in tree : n.path # full} \cup parents \cup {File(full, m.data)}

RECURSIVE ExtractAll(_, _, _)
ExtractAll(tree, base, members) ==
    IF members = <<>> THEN [tree |-> tree, ok |-> TRUE]
    ELSE IF MemberRaises(tree, base, Head(members))
         THEN [tree |-> tree, ok |-> FALSE]
         ELSE ExtractAll(ExtractMember(tree, base, Head(members)), base,
                         Tail(members))

(***************************************************************************)
(* shutil.move(src, dst): a rename; into dst when dst is a directory.      *)
(***************************************************************************)
MoveDest(tree, src, dst) ==
    IF PathIsDir(tree, dst) THEN dst \o <<src[Len(src)]>> ELSE dst

MoveRaises(tree, src, dst) ==
    \/ ~PathExists(tree, src)
    \/ PathExists(tree, MoveDest(tree, src, dst))

ShutilMove(tree, src, dst) ==
    LET real == MoveDest(tree, src, dst)
    IN  (tree \ Under(tree, src)) \cup
        {[n EXCEPT !.path = real \o SubSeq(n.path, Len(src) + 1, Len(n.path))] :
            n \in Under(tree, src)}

(***************************************************************************)
(* The files that <repo>/plugins may hold.                                 *)
(***************************************************************************)
\* one top-level directory D
ZipX == [stem |-> "x", suffix |-> ".zip",
         members |-> <<Member(<<"D">>, "dir", ""),
                       Member(<<"D", "f">>, "file", "xf")>>]
\* one top-level directory D and a file at the archive root
ZipY == [stem |-> "y", suffix |-> ".zip",
         members |-> <<Member(<<"D", "h">>, "file", "yh"),
                       Member(<<"README">>, "file", "yr")>>]
\* two top-level directories
ZipZ == [stem |-> "z", suffix |-> ".zip",
         members |-> <<Member(<<"D", "f">>, "file", "zf"),
                       Member(<<"E", "g">>, "file", "zg")>>]
\* files at the archive root only
ZipW == [stem |-> "w", suffix |-> ".zip",
         members |-> <<Member(<<"f">>, "file", "wf"),
                       Member(<<"g">>, "file", "wg")>>]
\* an archive without members
ZipE == [stem |-> "e", suffix |-> ".zip", members |-> <<>>]
\* not an archive
Notes == [stem |-> "notes", suffix |-> ".txt", members |-> <<>>]

RepoFiles == {ZipX, ZipY, ZipZ, ZipW, ZipE, Notes}

\* the trees qgis_plugins_dir may hold when the run starts
TreeEmpty == {}
\* an earlier install of D
TreeOldD == {Dir(<<"D">>), File(<<"D", "old">>, "old")}
\* an earlier install of z
TreeOldZ == {Dir(<<"z">>), File(<<"z", "old">>, "old")}
\* a plain file where a plugin directory would go
TreeFileD == {File(<<"D">>, "junk")}
\* the temp directory that an earlier run of x.zip has left: one that was
\* interrupted, or whose cleanup (line 97) raised
TreeLeftover == {Dir(<<"_temp_x">>), Dir(<<"_temp_x", "D">>),
                 File(<<"_temp_x", "D", "stale">>, "stale")}

\* a plain file where the temp directory of x.zip would go
TreeTempFile == {File(<<"_temp_x">>, "junk")}

InitialTrees == {TreeEmpty, TreeOldD, TreeOldZ, TreeFileD, TreeLeftover,
                 TreeTempFile}

Platforms == {"Linux", "Darwin", "Windows", "FreeBSD"}
AppdataValues == {None, <<"">>, <<"C:/Users/u/AppData/Roaming">>}

\* the sequences of distinct elements of S of length at most n
RECURSIVE DistinctSeqs(_, _)
DistinctSeqs(S, n) ==
    IF n = 0 THEN {<<>>}
    ELSE LET shorter == DistinctSeqs(S, n - 1)
         IN  shorter \cup
             {Append(pr[1], pr[2]) :
                 pr \in {qe \in shorter \X S :
                            \A a \in 1..Len(qe[1]) : qe[1][a] # qe[2]}}

(***************************************************************************)
(* install_plugins.py                                                      *)
(***************************************************************************)
\* get_qgis_plugins_dir raises RuntimeError
GetQgisPluginsDirRaises(system, env) ==
    \/ system \notin {"Linux", "Darwin", "Windows"}
    \/ system = "Windows" /\ env \in {None, <<"">>}

\* plugins_dir.glob("*.zip")
IsZip(f) == f.suffix = ".zip"
GlobZips(listing) == SelectSeq(listing, IsZip)

\* mutant of FindPluginZipsRaises: the empty result is not checked
FindPluginZipsRaisesDirOnly(dir) == ~dir.exists

\* find_plugin_zips raises RuntimeError
FindPluginZipsRaises(dir) ==
    \/ ~dir.exists
    \/ GlobZips(dir.files) = <<>>

\* mutant of TempDir: the directory is named after the archive alone
TempDirIsStem(stem) == <<stem>>

\* temp_dir = target_dir / f"_temp_{plugin_name}", plugin_name = zip_path.stem
TempDir(stem) == <<"_temp_" \o stem>>

\* subdirs = [d for d in temp_dir.iterdir() if d.is_dir()]
Subdirs(tree, temp) ==
    {n.path : n \in {m \in tree : /\ m.kind = "dir"
                                  /\ Len(m.path) = Len(temp) + 1
                                  /\ IsPrefix(temp, m.path)}}

\* mutant of ReturnCode: one failure is tolerated
ReturnCodeTolerant(f) == IF f <= 1 THEN 0 ELSE 1

\* return 0 if failed == 0 else 1
ReturnCode(f) == IF f = 0 THEN 0 ELSE 1

Zip == plugin_zips[idx]

Raised == raisedAt # ""

Event(what) == Append(log, <<what, idx>>)
EndEvent(what) == Append(log, <<what, idx, raisedAt>>)

InstInit ==
    /\ pc = "start"
    /\ platform \in Platforms
    /\ appdata \in IF platform = "Windows" THEN AppdataValues ELSE {None}
    /\ repoPlugins \in {[exists |-> FALSE, files |-> <<>>]} \cup
                      {[exists |-> TRUE, files |-> l] :
                          l \in DistinctSeqs(RepoFiles, MaxListing)}
    /\ targetExists \in BOOLEAN
    /\ fs \in IF targetExists THEN InitialTrees ELSE {TreeEmpty}
    /\ fs0 = fs
    /\ fsBegin = fs
    /\ plugin_zips = <<>>
    /\ idx = 0
    /\ installed = 0
    /\ failed = 0
    /\ exitStatus = None
    /\ temp_dir = None
    /\ final_dir = None
    /\ plugin_dir = None
    /\ faults = 0
    /\ raisedAt = ""
    /\ log = <<>>

\* main, lines 109-114
ResolveTarget ==
    /\ pc = "start"
    /\ IF GetQgisPluginsDirRaises(platform, appdata)
       THEN pc' = "exited" /\ exitStatus' = <<1>>
       ELSE pc' = "mkdir" /\ UNCHANGED exitStatus
    /\ UNCHANGED <<faults, fs0, fsBegin, platform, appdata, repoPlugins, targetExists, fs, plugin_zips,
                   idx, installed, failed, temp_dir, final_dir, plugin_dir,
                   raisedAt, log>>
    /\ UNCHANGED catVars

\* main, lines 118-121
MakeTarget ==
    /\ pc = "mkdir"
    /\ targetExists' = TRUE
    /\ pc' = "find"
    /\ UNCHANGED <<faults, fs0, fsBegin, platform, appdata, repoPlugins, fs, plugin_zips, idx,
                   installed, failed, exitStatus, temp_dir, final_dir,
                   plugin_dir, raisedAt, log>>
    /\ UNCHANGED catVars

\* main, lines 123-139
FindZips ==
    /\ pc = "find"
    /\ IF FindPluginZipsRaises(repoPlugins)
       THEN /\ pc' = "exited"
            /\ exitStatus' = <<1>>
            /\ UNCHANGED <<plugin_zips, idx>>
       ELSE /\ plugin_zips' = GlobZips(repoPlugins.files)
            /\ idx' = 1
            /\ pc' = "loop"
            /\ UNCHANGED exitStatus
    /\ UNCHANGED <<faults, fs0, fsBegin, platform, appdata, repoPlugins, targetExists, fs, installed,
                   failed, temp_dir, final_dir, plugin_dir, raisedAt, log>>
    /\ UNCHANGED catVars

\* main, line 141 (next archive) and lines 149-158 (the loop is over);
\* install_plugin, lines 57-62
LoopHead ==
    /\ pc = "loop"
    /\ IF idx > Len(plugin_zips)
       THEN /\ pc' = "done"
            /\ exitStatus' = <<ReturnCode(failed)>>
            /\ UNCHANGED <<temp_dir, final_dir, plugin_dir, raisedAt, log, fsBegin>>
       ELSE /\ pc' = "extract"
            /\ fsBegin' = fs
            /\ temp_dir' = TempDir(Zip.stem)
            /\ final_dir' = None
            /\ plugin_dir' = None
            /\ raisedAt' = ""
            /\ log' = Event("begin")
            /\ UNCHANGED exitStatus
    /\ UNCHANGED <<faults, fs0, platform, appdata, repoPlugins, targetExists, fs, plugin_zips,
                   idx, installed, failed>>
    /\ UNCHANGED catVars

\* install_plugin, lines 66-67.  The extraction raises at a member that
\* conflicts with the tree, or after any number k of members (an unreadable
\* or damaged archive, an I/O error); what was extracted before stays.
Extract ==
    /\ pc = "extract"
    /\ \/ LET r == ExtractAll(fs, temp_dir, Zip.members)
          IN  /\ fs' = r.tree
              /\ IF r.ok
                 THEN pc' = "scan" /\ UNCHANGED raisedAt
                 ELSE pc' = "cleanup" /\ raisedAt' = "extract"
              /\ UNCHANGED faults
       \/ /\ faults < MaxFaults
          /\ \E k \in 0..(Len(Zip.members) - 1) :
                LET r == ExtractAll(fs, temp_dir, SubSeq(Zip.members, 1, k))
                IN  r.ok /\ fs' = r.tree
          /\ pc' = "cleanup"
          /\ raisedAt' = "extract"
          /\ faults' = faults + 1
    /\ log' = Event("extract")
    /\ UNCHANGED <<fs0, fsBegin, platform, appdata, repoPlugins, targetExists, plugin_zips,
                   idx, installed, failed, exitStatus, temp_dir, final_dir,
                   plugin_dir>>
    /\ UNCHANGED catVars

\* install_plugin, lines 70-75 and 85
Scan ==
    /\ pc = "scan"
    /\ IF ~PathIsDir(fs, temp_dir)
       THEN \* temp_dir.iterdir() raises: nothing was extracted
            /\ raisedAt' = "scan"
            /\ pc' = "cleanup"
            /\ UNCHANGED <<plugin_dir, final_dir>>
       ELSE /\ IF Cardinality(Subdirs(fs, temp_dir)) = 1
               THEN /\ plugin_dir' = CHOOSE d \in Subdirs(fs, temp_dir) : TRUE
                    /\ final_dir' = <<plugin_dir'[Len(plugin_dir')]>>
               ELSE /\ plugin_dir' = None
                    /\ final_dir' = <<Zip.stem>>
            /\ pc' = "delete"
            /\ UNCHANGED raisedAt
    /\ UNCHANGED <<faults, fs0, fsBegin, platform, appdata, repoPlugins, targetExists, fs, plugin_zips,
                   idx, installed, failed, exitStatus, temp_dir, log>>
    /\ UNCHANGED catVars

\* install_plugin, lines 78-79 and 87-88.  shutil.rmtree raises on a plain
\* file; on an I/O error it raises with the directory untouched or emptied.
Delete ==
    /\ pc = "delete"
    /\ IF ~PathExists(fs, final_dir)
       THEN pc' = "move" /\ UNCHANGED <<fs, faults, raisedAt, log>>
       ELSE /\ log' = Event("delete")
            /\ IF RmtreeRaises(fs, final_dir)
               THEN /\ pc' = "cleanup"
                    /\ raisedAt' = "delete"
                    /\ UNCHANGED <<fs, faults>>
               ELSE \/ /\ pc' = "move"
                       /\ fs' = Rmtree(fs, final_dir)
                       /\ UNCHANGED <<faults, raisedAt>>
                    \/ /\ faults < MaxFaults
                       /\ faults' = faults + 1
                       /\ pc' = "cleanup"
                       /\ raisedAt' = "delete"
                       /\ fs' \in {fs, Rmtree(fs, final_dir) \cup {Dir(final_dir)}}
    /\ UNCHANGED <<fs0, fsBegin, platform, appdata, repoPlugins, targetExists, plugin_zips,
                   idx, installed, failed, exitStatus, temp_dir, final_dir,
                   plugin_dir>>
    /\ UNCHANGED catVars

\* install_plugin, lines 81 and 90-92.  On an I/O error shutil.move raises
\* and nothing has moved.
Move ==
    /\ pc = "move"
    /\ LET src == IF plugin_dir # None THEN plugin_dir ELSE temp_dir
       IN  IF MoveRaises(fs, src, final_dir)
           THEN raisedAt' = "move" /\ UNCHANGED <<fs, temp_dir, faults>>
           ELSE \/ /\ fs' = ShutilMove(fs, src, final_dir)
                   /\ temp_dir' = IF plugin_dir # None THEN temp_dir ELSE None
                   /\ UNCHANGED <<faults, raisedAt>>
                \/ /\ faults < MaxFaults
                   /\ faults' = faults + 1
                   /\ raisedAt' = "move"
                   /\ UNCHANGED <<fs, temp_dir>>
    /\ pc' = "cleanup"
    /\ log' = Event("move")
    /\ UNCHANGED <<fs0, fsBegin, platform, appdata, repoPlugins, targetExists, plugin_zips,
                   idx, installed, failed, exitStatus, final_dir, plugin_dir>>
    /\ UNCHANGED catVars

\* mutant of Cleanup: the cleanup is not in a finally block, an exception
\* skips it
CleanupUnlessRaised ==
    /\ pc = "cleanup"
    /\ IF ~Raised /\ temp_dir # None /\ PathExists(fs, temp_dir)
       THEN \/ fs' = Rmtree(fs, temp_dir) /\ UNCHANGED <<faults, raisedAt>>
            \/ /\ faults < MaxFaults
               /\ faults' = faults + 1
               /\ raisedAt' = "cleanup"
               /\ fs' \in {fs, Rmtree(fs, temp_dir) \cup {Dir(temp_dir)}}
       ELSE UNCHANGED <<fs, faults, raisedAt>>
    /\ pc' = "count"
    /\ UNCHANGED <<fs0, fsBegin, platform, appdata, repoPlugins, targetExists, plugin_zips,
                   idx, installed, failed, exitStatus, temp_dir, final_dir,
                   plugin_dir, log>>
    /\ UNCHANGED catVars

\* install_plugin, lines 94-97.  shutil.rmtree raises as in Delete; its
\* exception replaces the one that was propagating.
Cleanup ==
    /\ pc = "cleanup"
    /\ IF temp_dir # None /\ PathExists(fs, temp_dir)
       THEN IF RmtreeRaises(fs, temp_dir)
            THEN raisedAt' = "cleanup" /\ UNCHANGED <<fs, faults>>
            ELSE \/ fs' = Rmtree(fs, temp_dir) /\ UNCHANGED <<faults, raisedAt>>
                 \/ /\ faults < MaxFaults
                    /\ faults' = faults + 1
                    /\ raisedAt' = "cleanup"
                    /\ fs' \in {fs, Rmtree(fs, temp_dir) \cup {Dir(temp_dir)}}
       ELSE UNCHANGED <<fs, faults, raisedAt>>
    /\ pc' = "count"
    /\ UNCHANGED <<fs0, fsBegin, platform, appdata, repoPlugins, targetExists, plugin_zips,
                   idx, installed, failed, exitStatus, temp_dir, final_dir,
                   plugin_dir, log>>
    /\ UNCHANGED catVars

\* mutant of Count: the exception is counted but ends the loop
CountAndBreak ==
    /\ pc = "count"
    /\ IF Raised
       THEN /\ failed' = failed + 1
            /\ log' = EndEvent("fail")
            /\ idx' = Len(plugin_zips) + 1
            /\ UNCHANGED installed
       ELSE /\ installed' = installed + 1
            /\ log' = EndEvent("ok")
            /\ idx' = idx + 1
            /\ UNCHANGED failed
    /\ pc' = "loop"
    /\ UNCHANGED <<faults, fs0, fsBegin, platform, appdata, repoPlugins, targetExists, fs,
                   plugin_zips, exitStatus, temp_dir, final_dir, plugin_dir,
                   raisedAt>>
    /\ UNCHANGED catVars

\* main, lines 142-147
Count ==
    /\ pc = "count"
    /\ IF Raised
       THEN failed' = failed + 1 /\ log' = EndEvent("fail") /\ UNCHANGED installed
       ELSE installed' = installed + 1 /\ log' = EndEvent("ok") /\ UNCHANGED failed
    /\ idx' = idx + 1
    /\ pc' = "loop"
    /\ UNCHANGED <<faults, fs0, fsBegin, platform, appdata, repoPlugins, targetExists, fs, plugin_zips,
                   exitStatus, temp_dir, final_dir, plugin_dir, raisedAt>>
    /\ UNCHANGED catVars

InstNext ==
    \/ ResolveTarget
    \/ MakeTarget
    \/ FindZips
    \/ LoopHead
    \/ Extract
    \/ Scan
    \/ Delete
    \/ Move
    \/ Cleanup
    \/ Count

(***************************************************************************)
(* create_index.py.  Text (file names, archive entry names, descriptor     *)
(* values) is a sequence of one-character strings, so that the string      *)
(* tests of the code are computed character by character.                  *)
(***************************************************************************)
\* the characters in use, in code point order
CodePoints == <<"&", ",", "-", ".", "/", "<", ">", "A", "U", "Z", "_",
                "a", "b", "c", "d", "e", "f", "g", "h", "i", "j", "k", "l",
                "m", "n", "o", "p", "q", "r", "s", "t", "u", "v", "w",
                "x", "y", "z">>

Ord(c) == CHOOSE k \in 1..Len(CodePoints) : CodePoints[k] = c

\* str.lower
LowerChar(c) ==
    CASE c = "A" -> "a"
      [] c = "U" -> "u"
      [] c = "Z" -> "z"
      [] OTHER -> c

Lower(t) == [k \in 1..Len(t) |-> LowerChar(t[k])]

\* str.endswith
EndsWith(t, suffix) ==
    /\ Len(suffix) <= Len(t)
    /\ SubSeq(t, Len(t) - Len(suffix) + 1, Len(t)) = suffix

\* sub in t
Contains(t, sub) ==
    \E k \in 1..(Len(t) + 1) :
        k + Len(sub) - 1 <= Len(t) /\ SubSeq(t, k, k + Len(sub) - 1) = sub

\* str.replace(old, ""): every occurrence, left to right
RECURSIVE Remove(_, _)
Remove(t, old) ==
    IF Len(t) < Len(old) THEN t
    ELSE IF SubSeq(t, 1, Len(old)) = old
         THEN Remove(SubSeq(t, Len(old) + 1, Len(t)), old)
         ELSE <<Head(t)>> \o Remove(Tail(t), old)

\* t.split(","): the pieces between the commas, empty ones kept
RECURSIVE Split(_)
Split(t) ==
    IF \A k \in 1..Len(t) : t[k] # ","
    THEN <<t>>
    ELSE LET k == CHOOSE i \in 1..Len(t) :
                      t[i] = "," /\ \A j \in 1..(i - 1) : t[j] # ","
         IN  <<SubSeq(t, 1, k - 1)>> \o Split(SubSeq(t, k + 1, Len(t)))

\* str.strip(): the white space at both ends removed
RECURSIVE Strip(_)
Strip(t) ==
    IF t = <<>> THEN t
    ELSE IF Head(t) = " " THEN Strip(Tail(t))
    ELSE IF t[Len(t)] = " " THEN Strip(SubSeq(t, 1, Len(t) - 1))
    ELSE t

\* list[:n]
Take(list, n) == SubSeq(list, 1, IF Len(list) < n THEN Len(list) ELSE n)

\* the largest position of character c in t, 0 when there is none
LastIndex(t, c) ==
    IF \E k \in 1..Len(t) : t[k] = c
    THEN CHOOSE k \in 1..Len(t) : t[k] = c /\ \A j \in (k + 1)..Len(t) : t[j] # c
    ELSE 0

\* os.path.splitext(path)[1]: from the last dot of the base name, unless the
\* base name has only dots before it
SplitExt(t) ==
    LET sep == LastIndex(t, "/")
        dot == LastIndex(t, ".")
    IN  IF dot > sep /\ \E k \in (sep + 1)..(dot - 1) : t[k] # "."
        THEN SubSeq(t, dot, Len(t))
        ELSE <<>>

\* a < b for two str, by code points
RECURSIVE StrLess(_, _)
StrLess(a, b) ==
    IF b = <<>> THEN FALSE
    ELSE IF a = <<>> THEN TRUE
    ELSE IF Head(a) # Head(b) THEN Ord(Head(a)) < Ord(Head(b))
    ELSE StrLess(Tail(a), Tail(b))

\* list.sort(key=...) / sorted() on a list of [key, val] pairs: stable,
\* an element goes after the elements whose key is not greater
RECURSIVE InsertByKey(_, _)
InsertByKey(sorted, x) ==
    IF sorted = <<>> THEN <<x>>
    ELSE IF StrLess(x.key, Head(sorted).key)
         THEN <<x>> \o sorted
         ELSE <<Head(sorted)>> \o InsertByKey(Tail(sorted), x)

RECURSIVE SortByKey(_)
SortByKey(list) ==
    IF list = <<>> THEN <<>>
    ELSE InsertByKey(SortByKey(SubSeq(list, 1, Len(list) - 1)), list[Len(list)])

\* literals
PLUGINS_DIR == <<"p", "l", "u", "g", "i", "n", "s">>
ICONS_DIR == <<"i", "c", "o", "n", "s">>
DotZip == <<".", "z", "i", "p">>
DotPng == <<".", "p", "n", "g">>
DotSvg == <<".", "s", "v", "g">>
MetadataTxt == <<"m", "e", "t", "a", "d", "a", "t", "a", ".", "t", "x", "t">>
IconPng == <<"i", "c", "o", "n", ".", "p", "n", "g">>
IconSvg == <<"i", "c", "o", "n", ".", "s", "v", "g">>
SlashIcons == <<"/", "i", "c", "o", "n", "s", "/">>
Slash == <<"/">>

(***************************************************************************)
(* Archives as create_index.py reads them.  An entry has a name, its       *)
(* bytes (data), the date_time of its header and, for a descriptor, what   *)
(* decoding and configparser make of the bytes: sections maps each section *)
(* name to its key/value mapping.                                          *)
(***************************************************************************)
EmptyMap == <<>>

Get(m, key, default) == IF key \in DOMAIN m THEN m[key] ELSE default

\* dict truthiness
NonEmpty(m) == DOMAIN m # {}

Binary == [decodes |-> FALSE, parses |-> FALSE, sections |-> EmptyMap]
ParsedIni(sections) == [decodes |-> TRUE, parses |-> TRUE, sections |-> sections]

Entry(name, data) ==
    [name |-> name, data |-> data, date |-> <<2024, 5, 17>>, content |-> Binary]
DescriptorEntry(name, date, content) ==
    [name |-> name, data |-> "ini", date |-> date, content |-> content]

\* datetime(*info.date_time) raises ValueError on a date that does not exist
DaysInMonth(y, m) ==
    IF m \in {4, 6, 9, 11} THEN 30
    ELSE IF m = 2
         THEN IF y % 4 = 0 /\ (y % 100 # 0 \/ y % 400 = 0) THEN 29 ELSE 28
         ELSE 31

DateValid(d) ==
    /\ d[1] >= 1
    /\ d[2] \in 1..12
    /\ d[3] >= 1 /\ d[3] <= DaysInMonth(d[1], d[2])

\* zf.namelist()
NameList(arch) == [k \in 1..Len(arch.entries) |-> arch.entries[k].name]

InNameList(arch, name) == \E k \in 1..Len(arch.entries) : arch.entries[k].name = name

\* zf.open(name).read(): the last entry of that name
DataOf(arch, name) ==
    LET k == CHOOSE i \in 1..Len(arch.entries) :
                 /\ arch.entries[i].name = name
                 /\ \A j \in (i + 1)..Len(arch.entries) : arch.entries[j].name # name
    IN  arch.entries[k].data

\* parse_metadata: the first entry whose name ends with metadata.txt, 0 if none
DescriptorIndex(arch) ==
    IF \E k \in 1..Len(arch.entries) : EndsWith(arch.entries[k].name, MetadataTxt)
    THEN CHOOSE k \in 1..Len(arch.entries) :
             /\ EndsWith(arch.entries[k].name, MetadataTxt)
             /\ \A j \in 1..(k - 1) : ~EndsWith(arch.entries[j].name, MetadataTxt)
    ELSE 0

\* mutant of ParseMetadata: the date of the descriptor entry is not stored
ParseMetadataNoDate(arch) ==
    IF ~arch.valid THEN EmptyMap
    ELSE IF DescriptorIndex(arch) = 0 THEN EmptyMap
    ELSE LET e == arch.entries[DescriptorIndex(arch)]
         IN  IF ~DateValid(e.date) THEN EmptyMap
             ELSE IF ~e.content.decodes THEN EmptyMap
             ELSE IF ~e.content.parses THEN EmptyMap
             ELSE IF "general" \notin DOMAIN e.content.sections THEN EmptyMap
             ELSE e.content.sections["general"]

\* mutant of ParseMetadata: the date is stored before the descriptor is
\* read, so a descriptor that fails to decode or parse leaves it behind
ParseMetadataDateFirst(arch) ==
    IF ~arch.valid THEN EmptyMap
    ELSE IF DescriptorIndex(arch) = 0 THEN EmptyMap
    ELSE LET e == arch.entries[DescriptorIndex(arch)]
         IN  IF ~DateValid(e.date) THEN EmptyMap
             ELSE IF ~e.content.decodes \/ ~e.content.parses
                  THEN ("_metadata_date" :> e.date)
             ELSE IF "general" \notin DOMAIN e.content.sections
                  THEN ("_metadata_date" :> e.date)
             ELSE ("_metadata_date" :> e.date) @@ e.content.sections["general"]

\* parse_metadata(zip_path)
ParseMetadata(arch) ==
    IF ~arch.valid THEN EmptyMap             \* ZipFile(...) raises
    ELSE IF DescriptorIndex(arch) = 0 THEN EmptyMap
    ELSE LET e == arch.entries[DescriptorIndex(arch)]
         IN  IF ~DateValid(e.date) THEN EmptyMap         \* datetime(...) raises
             ELSE IF ~e.content.decodes THEN EmptyMap    \* decode raises
             ELSE IF ~e.content.parses THEN EmptyMap     \* read_string raises
             ELSE IF "general" \notin DOMAIN e.content.sections THEN EmptyMap
             ELSE ("_metadata_date" :> e.date) @@ e.content.sections["general"]

(***************************************************************************)
(* extract_plugin_icon.  A hit is a rule of the search that matches: the   *)
(* file it writes into ICONS_DIR, the bytes, and the entry they come from. *)
(***************************************************************************)
Hit(arch, plugin_name, name, extension) ==
    [file |-> plugin_name \o extension, data |-> DataOf(arch, name), from |-> name]

\* lines 33-36
MetadataIconCandidates(plugin_name, metadata_icon_path) ==
    <<plugin_name \o Slash \o metadata_icon_path, metadata_icon_path>>

\* lines 41-43
DeclaredExtension(icon_path) ==
    IF SplitExt(icon_path) = <<>> THEN DotPng ELSE SplitExt(icon_path)

\* lines 31-55: the declared path, relative to the plugin directory, then literal
RECURSIVE DeclaredHitsOf(_, _, _)
DeclaredHitsOf(arch, plugin_name, candidates) ==
    IF candidates = <<>> THEN <<>>
    ELSE (IF InNameList(arch, Head(candidates))
          THEN <<Hit(arch, plugin_name, Head(candidates),
                     DeclaredExtension(Head(candidates)))>>
          ELSE <<>>)
         \o DeclaredHitsOf(arch, plugin_name, Tail(candidates))

DeclaredHits(arch, plugin_name, metadata_icon_path) ==
    IF metadata_icon_path = <<>> THEN <<>>     \* None or ""
    ELSE DeclaredHitsOf(arch, plugin_name,
                        MetadataIconCandidates(plugin_name, metadata_icon_path))

\* lines 59-66
IconCandidates(plugin_name) ==
    <<[path |-> plugin_name \o SlashIcons \o IconPng, ext |-> DotPng],
      [path |-> plugin_name \o Slash \o IconPng, ext |-> DotPng],
      [path |-> plugin_name \o SlashIcons \o plugin_name \o DotPng, ext |-> DotPng],
      [path |-> plugin_name \o SlashIcons \o IconSvg, ext |-> DotSvg],
      [path |-> plugin_name \o Slash \o IconSvg, ext |-> DotSvg],
      [path |-> plugin_name \o SlashIcons \o plugin_name \o DotSvg, ext |-> DotSvg]>>

\* lines 68-79
RECURSIVE ConventionalHitsOf(_, _, _)
ConventionalHitsOf(arch, plugin_name, candidates) ==
    IF candidates = <<>> THEN <<>>
    ELSE (IF InNameList(arch, Head(candidates).path)
          THEN <<Hit(arch, plugin_name, Head(candidates).path, Head(candidates).ext)>>
          ELSE <<>>)
         \o ConventionalHitsOf(arch, plugin_name, Tail(candidates))

ConventionalHits(arch, plugin_name) ==
    ConventionalHitsOf(arch, plugin_name, IconCandidates(plugin_name))

\* line 111
SkipWords == {<<"a", "b", "o", "u", "t">>, <<"s", "e", "t", "t", "i", "n", "g", "s">>, <<"l", "o", "g", "o">>}

\* lines 85-124: what one iteration of the scan loop does with an entry name
ScanHitsOfName(arch, plugin_name, name) ==
    IF EndsWith(name, IconPng) \/ EndsWith(name, Slash \o IconPng)
    THEN <<Hit(arch, plugin_name, name, DotPng)>>
    ELSE IF EndsWith(name, IconSvg) \/ EndsWith(name, Slash \o IconSvg)
    THEN <<Hit(arch, plugin_name, name, DotSvg)>>
    ELSE IF Contains(name, SlashIcons) /\ (EndsWith(name, DotSvg) \/ EndsWith(name, DotPng))
    THEN IF \E skip \in SkipWords : Contains(Lower(name), skip)
         THEN <<>>
         ELSE <<Hit(arch, plugin_name, name,
                    IF EndsWith(name, DotSvg) THEN DotSvg ELSE DotPng)>>
    ELSE <<>>

\* lines 84-124: the loop over zf.namelist()
RECURSIVE ScanHitsOf(_, _, _)
ScanHitsOf(arch, plugin_name, names) ==
    IF names = <<>> THEN <<>>
    ELSE ScanHitsOfName(arch, plugin_name, Head(names))
         \o ScanHitsOf(arch, plugin_name, Tail(names))

ScanHits(arch, plugin_name) == ScanHitsOf(arch, plugin_name, NameList(arch))

\* mutant of IconHits: the conventional locations are tried first
IconHitsConventionalFirst(arch, plugin_name, metadata_icon_path) ==
    ConventionalHits(arch, plugin_name)
    \o DeclaredHits(arch, plugin_name, metadata_icon_path)
    \o ScanHits(arch, plugin_name)

\* mutant of IconHits: the generic scan runs before the conventional locations
IconHitsScanFirst(arch, plugin_name, metadata_icon_path) ==
    DeclaredHits(arch, plugin_name, metadata_icon_path)
    \o ScanHits(arch, plugin_name)
    \o ConventionalHits(arch, plugin_name)

\* every rule that matches, in the order the code tries them
IconHits(arch, plugin_name, metadata_icon_path) ==
    DeclaredHits(arch, plugin_name, metadata_icon_path)
    \o ConventionalHits(arch, plugin_name)
    \o ScanHits(arch, plugin_name)

\* mutant of IconWrites: a matching rule writes but does not return
IconWritesNoReturn(hits) == hits

\* the code writes for the first rule that matches and returns
IconWrites(hits) == IF hits = <<>> THEN <<>> ELSE <<Head(hits)>>

\* extract_plugin_icon(zip_path, plugin_name, metadata_icon_path): the files
\* written, in order, and the value returned
ExtractPluginIcon(arch, plugin_name, metadata_icon_path) ==
    LET writes == IF arch.valid
                  THEN IconWrites(IconHits(arch, plugin_name, metadata_icon_path))
                  ELSE <<>>                  \* ZipFile(...) raises, caught
    IN  [writes |-> writes,
         path |-> IF writes = <<>> THEN None
                  ELSE ICONS_DIR \o Slash \o writes[1].file]

(***************************************************************************)
(* The files that PLUGINS_DIR may hold in a Catalog Builder run.           *)
(***************************************************************************)
\* descriptor declares an icon that exists; a conventional icon exists too
CatA ==
    [filename |-> <<"a", ".", "z", "i", "p">>, valid |-> TRUE, mtime |-> <<2025, 1, 31>>,
     entries |-> <<DescriptorEntry(<<"a", "/", "m", "e", "t", "a", "d", "a", "t", "a", ".", "t", "x", "t">>, <<2024, 3, 9>>, ParsedIni("general" :> (("name" :> <<"z", "e", "t", "a">>) @@ ("icon" :> <<"i", "m", "g", "/", "i", ".", "p", "n", "g">>)))),
                 Entry(<<"a", "/", "i", "m", "g", "/", "i", ".", "p", "n", "g">>, "a-declared"),
                 Entry(<<"a", "/", "i", "c", "o", "n", "s", "/", "i", "c", "o", "n", ".", "p", "n", "g">>, "a-conventional")>>]
\* no descriptor
CatB ==
    [filename |-> <<"b", ".", "z", "i", "p">>, valid |-> TRUE, mtime |-> <<2025, 1, 31>>,
     entries |-> <<Entry(<<"b", "/", "i", "c", "o", "n", ".", "p", "n", "g">>, "b-icon")>>]
\* the descriptor is not UTF-8
CatC ==
    [filename |-> <<"c", ".", "z", "i", "p">>, valid |-> TRUE, mtime |-> <<2025, 1, 31>>,
     entries |-> <<DescriptorEntry(<<"c", "/", "m", "e", "t", "a", "d", "a", "t", "a", ".", "t", "x", "t">>, <<2024, 3, 9>>, Binary),
                 Entry(<<"c", "/", "i", "c", "o", "n", ".", "p", "n", "g">>, "c-icon")>>]
\* the descriptor has no general section
CatD ==
    [filename |-> <<"d", ".", "z", "i", "p">>, valid |-> TRUE, mtime |-> <<2025, 1, 31>>,
     entries |-> <<DescriptorEntry(<<"d", "/", "m", "e", "t", "a", "d", "a", "t", "a", ".", "t", "x", "t">>, <<2024, 3, 9>>, ParsedIni("other" :> (("name" :> <<"d">>))))>>]
\* an entry only the generic scan matches comes before a conventional icon
CatE ==
    [filename |-> <<"e", ".", "z", "i", "p">>, valid |-> TRUE, mtime |-> <<2025, 1, 31>>,
     entries |-> <<Entry(<<"e", "/", "x", "/", "m", "y", "i", "c", "o", "n", ".", "p", "n", "g">>, "e-scan"),
                 DescriptorEntry(<<"e", "/", "m", "e", "t", "a", "d", "a", "t", "a", ".", "t", "x", "t">>, <<2023, 12, 31>>, ParsedIni("general" :> (("name" :> <<"A", "l", "p", "h", "a">>)))),
                 Entry(<<"e", "/", "i", "c", "o", "n", ".", "s", "v", "g">>, "e-conventional")>>]
\* the descriptor has no name, the archive no icon
CatF ==
    [filename |-> <<"f", ".", "z", "i", "p">>, valid |-> TRUE, mtime |-> <<2025, 1, 31>>,
     entries |-> <<DescriptorEntry(<<"f", "/", "m", "e", "t", "a", "d", "a", "t", "a", ".", "t", "x", "t">>, <<2024, 2, 29>>, ParsedIni("general" :> (("version" :> <<"v">>))))>>]
\* not a zip archive, whatever its name
CatG ==
    [filename |-> <<"g", ".", "z", "i", "p">>, valid |-> FALSE, mtime |-> <<2025, 1, 31>>,
     entries |-> <<>>]
\* the descriptor entry carries the date 1980-00-00
CatH ==
    [filename |-> <<"h", ".", "z", "i", "p">>, valid |-> TRUE, mtime |-> <<2025, 1, 31>>,
     entries |-> <<DescriptorEntry(<<"h", "/", "m", "e", "t", "a", "d", "a", "t", "a", ".", "t", "x", "t">>, <<1980, 0, 0>>, ParsedIni("general" :> (("name" :> <<"h">>))))>>]
\* configparser rejects the descriptor
CatI ==
    [filename |-> <<"i", ".", "z", "i", "p">>, valid |-> TRUE, mtime |-> <<2025, 1, 31>>,
     entries |-> <<DescriptorEntry(<<"i", "/", "m", "e", "t", "a", "d", "a", "t", "a", ".", "t", "x", "t">>, <<2024, 3, 9>>, [decodes |-> TRUE, parses |-> FALSE, sections |-> EmptyMap]),
                 Entry(<<"i", "/", "i", "c", "o", "n", ".", "p", "n", "g">>, "i-icon")>>]
\* a capitalised name that sorts after "zeta" once lower-cased
CatJ ==
    [filename |-> <<"j", ".", "z", "i", "p">>, valid |-> TRUE, mtime |-> <<2025, 1, 31>>,
     entries |-> <<DescriptorEntry(<<"j", "/", "m", "e", "t", "a", "d", "a", "t", "a", ".", "t", "x", "t">>, <<2024, 3, 9>>, ParsedIni("general" :> (("name" :> <<"Z", "u", "l", "u">>))))>>]
\* the general section of the descriptor has no keys
CatK ==
    [filename |-> <<"k", ".", "z", "i", "p">>, valid |-> TRUE, mtime |-> <<2025, 1, 31>>,
     entries |-> <<DescriptorEntry(<<"k", "/", "m", "e", "t", "a", "d", "a", "t", "a", ".", "t", "x", "t">>, <<2022, 7, 4>>, ParsedIni("general" :> EmptyMap))>>]
\* a file that is not named .zip
CatN ==
    [filename |-> <<"n", "o", "t", "e", "s", ".", "t", "x", "t">>, valid |-> FALSE, mtime |-> <<2025, 1, 31>>,
     entries |-> <<>>]

CatFiles == {CatA, CatB, CatC, CatD, CatE, CatF, CatG, CatH, CatI, CatJ, CatK, CatN}

\* most files in PLUGINS_DIR
MaxCat == 2

\* the subsets of S with at most n elements
AtMost(S, n) == {T \in SUBSET S : Cardinality(T) <= n}

(***************************************************************************)
(* generate_plugins_xml and generate_index_html                            *)
(***************************************************************************)
RECURSIVE SetToSeq(_)
SetToSeq(S) ==
    IF S = {} THEN <<>>
    ELSE LET x == CHOOSE y \in S : TRUE IN <<x>> \o SetToSeq(S \ {x})

Vals(list) == [k \in 1..Len(list) |-> list[k].val]

FileName(f) == f.filename
KeyedByFileName(list) ==
    [k \in 1..Len(list) |-> [key |-> FileName(list[k]), val |-> list[k]]]

\* sorted(os.listdir(plugins_path))
Listing == Vals(SortByKey(KeyedByFileName(SetToSeq(catDir.files))))

CurFile == Listing[cidx]

\* mutant of SortKey: a record without a name is sorted as "Unknown"
SortKeyUnknown(p) == Lower(Get(p, "name", <<"U", "n", "k", "n", "o", "w", "n">>))

\* mutant of SortKey: the names are compared as written
SortKeyCaseSensitive(p) == Get(p, "name", <<>>)

\* lines 207 and 754: key=lambda p: p.get("name", "").lower()
SortKey(p) == Lower(Get(p, "name", <<>>))

KeyedBySortKey(list) ==
    [k \in 1..Len(list) |-> [key |-> SortKey(list[k]), val |-> list[k]]]

SortPlugins(list) == Vals(SortByKey(KeyedBySortKey(list)))

Unknown == <<"U", "n", "k", "n", "o", "w", "n">>

\* .strftime("%Y-%m-%d")
Digits == <<"0", "1", "2", "3", "4", "5", "6", "7", "8", "9">>
TwoDigits(n) == <<Digits[((n \div 10) % 10) + 1], Digits[(n % 10) + 1]>>
Strftime(d) ==
    TwoDigits(d[1] \div 100) \o TwoDigits(d[1] % 100) \o <<"-">>
    \o TwoDigits(d[2]) \o <<"-">> \o TwoDigits(d[3])

\* lines 745-750
XmlEntry(metadata, filename) ==
    ("zip_filename" :> filename) @@ ("zip_path" :> PLUGINS_DIR \o Slash \o filename)
    @@ metadata

\* str.replace(old, new) for a one-character old: every occurrence, left to
\* right, the text put in not looked at again
RECURSIVE Replace(_, _, _)
Replace(t, old, new) ==
    IF t = <<>> THEN <<>>
    ELSE (IF Head(t) = old THEN new ELSE <<Head(t)>>) \o Replace(Tail(t), old, new)

Amp == <<"&", "a", "m", "p", ";">>
Lt == <<"&", "l", "t", ";">>
Gt == <<"&", "g", "t", ";">>
NoDescription == <<"N", "o", " ", "d", "e", "s", "c", "r", "i", "p", "t", "i", "o", "n", " ", "a", "v", "a", "i", "l", "a", "b", "l", "e", ".">>

\* mutant of EscapeAbout: the ampersands are replaced last
EscapeAboutAmpLast(t) == Replace(Replace(Replace(t, "<", Lt), ">", Gt), "&", Amp)

\* lines 763-768: .replace("&", "&amp;").replace("<", "&lt;").replace(">", "&gt;")
EscapeAbout(t) == Replace(Replace(Replace(t, "&", Amp), "<", Lt), ">", Gt)

\* lines 760-800: the record written for one plugin
XmlRecord(p) ==
    [name |-> Get(p, "name", Unknown),
     about |-> EscapeAbout(Get(p, "about", Get(p, "description", NoDescription))),
     file_name |-> p["zip_filename"],
     zip_path |-> p["zip_path"]]

\* lines 182-203
HtmlEntry(metadata, file, icon_path) ==
    ("icon_path" :> icon_path)
    @@ ("filename" :> PLUGINS_DIR \o Slash \o file.filename)
    @@ ("modified" :> IF "_metadata_date" \in DOMAIN metadata
                      THEN Strftime(metadata["_metadata_date"])
                      ELSE Strftime(file.mtime))
    @@ metadata

\* if tag: a stripped entry that is not empty
IsTag(tag) == tag # <<>>

\* lines 224-230: the badges of one card
TagBadges(tags) ==
    IF tags = <<>> THEN <<>>
    ELSE LET first == Take(Split(tags), 5)
         IN  SelectSeq([k \in 1..Len(first) |-> Strip(first[k])], IsTag)

\* lines 212-240: the card written for one plugin
HtmlCard(p) ==
    [name |-> Get(p, "name", p["filename"]),
     tag_badges |-> TagBadges(Get(p, "tags", <<>>)),
     filename |-> p["filename"],
     icon_path |-> p["icon_path"],
     modified |-> p["modified"]]

\* open(output_path, "wb").write(...)
WriteFile(dir, w) ==
    {x \in dir : x.file # w.file} \cup {[file |-> w.file, data |-> w.data]}

RECURSIVE WriteFiles(_, _)
WriteFiles(dir, writes) ==
    IF writes = <<>> THEN dir
    ELSE WriteFiles(WriteFile(dir, Head(writes)), Tail(writes))

NotWritten == [written |-> FALSE, records |-> <<>>]

CatStart ==
    /\ cpc = "xml_scan"
    /\ cidx = 1
    /\ plugins_data = <<>>
    /\ xmlOut = NotWritten
    /\ plugins = <<>>
    /\ htmlOut = NotWritten
    /\ iconsDir = {}
    /\ iconLog = <<>>

CatInit ==
    /\ catDir \in {[exists |-> FALSE, files |-> {}]} \cup
                  {[exists |-> TRUE, files |-> S] : S \in AtMost(CatFiles, MaxCat)}
    /\ CatStart

\* generate_plugins_xml, lines 739-751: one file of the listing
XmlScan ==
    /\ cpc = "xml_scan"
    /\ catDir.exists /\ cidx <= Len(Listing)
    /\ plugins_data' =
          IF EndsWith(CurFile.filename, DotZip) /\ NonEmpty(ParseMetadata(CurFile))
          THEN Append(plugins_data, XmlEntry(ParseMetadata(CurFile), CurFile.filename))
          ELSE plugins_data
    /\ cidx' = cidx + 1
    /\ UNCHANGED <<cpc, catDir, xmlOut, plugins, htmlOut, iconsDir, iconLog>>
    /\ UNCHANGED instVars

\* generate_plugins_xml, lines 753-809
XmlWrite ==
    /\ cpc = "xml_scan"
    /\ ~(catDir.exists /\ cidx <= Len(Listing))
    /\ LET sorted == SortPlugins(plugins_data)
       IN  /\ plugins_data' = sorted
           /\ xmlOut' = [written |-> TRUE,
                         records |-> [k \in 1..Len(sorted) |-> XmlRecord(sorted[k])]]
    /\ cpc' = "html_scan"
    /\ cidx' = 1
    /\ UNCHANGED <<catDir, plugins, htmlOut, iconsDir, iconLog>>
    /\ UNCHANGED instVars

\* generate_index_html, lines 175-204: one file of the listing (the size
\* string of line 193 is left out: it is displayed only)
HtmlScan ==
    /\ cpc = "html_scan"
    /\ catDir.exists /\ cidx <= Len(Listing)
    /\ IF EndsWith(CurFile.filename, DotZip) /\ NonEmpty(ParseMetadata(CurFile))
       THEN LET metadata == ParseMetadata(CurFile)
                plugin_name == Remove(CurFile.filename, DotZip)
                r == ExtractPluginIcon(CurFile, plugin_name,
                                       Get(metadata, "icon", None))
            IN  /\ iconsDir' = WriteFiles(iconsDir, r.writes)
                /\ iconLog' = iconLog \o
                      [k \in 1..Len(r.writes) |->
                          [call |-> cidx, file |-> r.writes[k].file,
                           data |-> r.writes[k].data, from |-> r.writes[k].from]]
                /\ plugins' = Append(plugins, HtmlEntry(metadata, CurFile, r.path))
       ELSE UNCHANGED <<plugins, iconsDir, iconLog>>
    /\ cidx' = cidx + 1
    /\ UNCHANGED <<cpc, catDir, plugins_data, xmlOut, htmlOut>>
    /\ UNCHANGED instVars

\* generate_index_html, lines 206-729
HtmlWrite ==
    /\ cpc = "html_scan"
    /\ ~(catDir.exists /\ cidx <= Len(Listing))
    /\ LET sorted == SortPlugins(plugins)
       IN  /\ plugins' = sorted
           /\ htmlOut' = [written |-> TRUE,
                          records |-> [k \in 1..Len(sorted) |-> HtmlCard(sorted[k])]]
    /\ cpc' = "done"
    /\ UNCHANGED <<catDir, cidx, plugins_data, xmlOut, iconsDir, iconLog>>
    /\ UNCHANGED instVars

CatNext ==
    \/ XmlScan
    \/ XmlWrite
    \/ HtmlScan
    \/ HtmlWrite

\* the Installer, not running
InstIdle ==
    /\ pc = "idle"
    /\ platform = "Linux"
    /\ appdata = None
    /\ repoPlugins = [exists |-> FALSE, files |-> <<>>]
    /\ targetExists = FALSE
    /\ fs = {}
    /\ fs0 = {}
    /\ fsBegin = {}
    /\ plugin_zips = <<>>
    /\ idx = 0
    /\ installed = 0
    /\ failed = 0
    /\ exitStatus = None
    /\ temp_dir = None
    /\ final_dir = None
    /\ plugin_dir = None
    /\ faults = 0
    /\ raisedAt = ""
    /\ log = <<>>

\* the Catalog Builder, not running
CatIdle ==
    /\ catDir = [exists |-> FALSE, files |-> {}]
    /\ cpc = "idle"
    /\ cidx = 0
    /\ plugins_data = <<>>
    /\ xmlOut = NotWritten
    /\ plugins = <<>>
    /\ htmlOut = NotWritten
    /\ iconsDir = {}
    /\ iconLog = <<>>

\* a Catalog Builder run: python create_index.py
InitCat == CatInit /\ InstIdle

SpecCat == InitCat /\ [][CatNext]_vars

(***************************************************************************)
(* The archives p.zip that the Icon Extractor is applied to: a descriptor  *)
(* that declares an icon path (or none), then entries drawn from a pool,   *)
(* in any order.                                                           *)
(***************************************************************************)
\* most entries of p.zip after its descriptor
MaxEntries == 3

PoolDeclaredRel == Entry(<<"p", "/", "i", "m", "g", "/", "i", ".", "p", "n", "g">>, "declared-rel")
PoolDeclaredLit == Entry(<<"i", "m", "g", "/", "i", ".", "p", "n", "g">>, "declared-lit")
PoolDeclaredSvg == Entry(<<"p", "/", "i", "m", "g", "/", "i", ".", "s", "v", "g">>, "declared-svg")
PoolDeclaredNoExt == Entry(<<"p", "/", "i", "m", "g", "/", "i">>, "declared-noext")
PoolConv1 == Entry(<<"p", "/", "i", "c", "o", "n", "s", "/", "i", "c", "o", "n", ".", "p", "n", "g">>, "conv-1")
PoolConv5 == Entry(<<"p", "/", "i", "c", "o", "n", ".", "s", "v", "g">>, "conv-5")
PoolScanPng == Entry(<<"q", "/", "m", "y", "i", "c", "o", "n", ".", "p", "n", "g">>, "scan-png")
PoolScanSvg == Entry(<<"q", "/", "i", "c", "o", "n", ".", "s", "v", "g">>, "scan-svg")
PoolScanDir == Entry(<<"q", "/", "i", "c", "o", "n", "s", "/", "t", "o", "o", "l", ".", "s", "v", "g">>, "scan-dir")

IconPool == {PoolDeclaredRel, PoolDeclaredLit, PoolDeclaredSvg, PoolDeclaredNoExt,
             PoolConv1, PoolConv5, PoolScanPng, PoolScanSvg, PoolScanDir}

\* the icon key of the descriptor: absent, img/i.png, img/i.svg, img/i
DeclaredPool == {None, <<"i", "m", "g", "/", "i", ".", "s", "v", "g">>, <<"i", "m", "g", "/", "i", ".", "p", "n", "g">>, <<"i", "m", "g", "/", "i">>}

PName == <<"p">>

IconArchive(entries, declared) ==
    [filename |-> PName \o DotZip, valid |-> TRUE, mtime |-> <<2025, 1, 31>>,
     entries |->
        <<DescriptorEntry(PName \o Slash \o MetadataTxt, <<2024, 3, 9>>,
                          ParsedIni("general" :>
                              IF declared = None
                              THEN ("name" :> PName)
                              ELSE ("name" :> PName) @@ ("icon" :> declared)))>>
        \o entries]

InitIcon ==
    /\ catDir \in {[exists |-> TRUE, files |-> {IconArchive(es, d)}] :
                      es \in DistinctSeqs(IconPool, MaxEntries), d \in DeclaredPool}
    /\ CatStart
    /\ InstIdle

\* a Catalog Builder run on a directory that holds one archive p.zip
SpecIcon == InitIcon /\ [][CatNext]_vars

(***************************************************************************)
(* The archives p.zip whose descriptor fields are rendered: a tags field   *)
(* made of entries joined by commas (configparser strips the value), or an *)
(* about or description text.                                              *)
(***************************************************************************)
\* most comma-separated entries of a tags field
MaxTags == 6

\* an entry of a tags field: empty, a tag, a tag with white space around it
TagEntries == {<<>>, <<"a">>, <<" ", "b", " ">>}

\* ",".join(entries)
RECURSIVE Join(_)
Join(entries) ==
    IF Len(entries) = 1 THEN entries[1]
    ELSE entries[1] \o <<",">> \o Join(Tail(entries))

\* all sequences over S of length 1..n
RECURSIVE SeqsUpTo(_, _)
SeqsUpTo(S, n) ==
    IF n = 0 THEN {}
    ELSE {<<x>> : x \in S} \cup
         {Append(t, x) : t \in SeqsUpTo(S, n - 1), x \in S}

FieldArchive(general) ==
    [filename |-> PName \o DotZip, valid |-> TRUE, mtime |-> <<2025, 1, 31>>,
     entries |->
        <<DescriptorEntry(PName \o Slash \o MetadataTxt, <<2024, 3, 9>>,
                          ParsedIni("general" :> general))>>]

\* longest about or description text
MaxAbout == 3

\* the characters of an about or description text
AboutChars == {"&", "<", ">", "'", "\"", "a"}

AboutTexts == {<<>>} \cup SeqsUpTo(AboutChars, MaxAbout)

FieldArchives ==
    {FieldArchive(("name" :> PName) @@ ("tags" :> Strip(Join(es)))) :
        es \in SeqsUpTo(TagEntries, MaxTags)}
    \cup {FieldArchive(("name" :> PName) @@ ("about" :> t)) : t \in AboutTexts}
    \cup {FieldArchive(("name" :> PName) @@ ("description" :> t)) : t \in AboutTexts}
    \cup {FieldArchive(("name" :> PName) @@ ("about" :> t) @@ ("description" :> <<"<">>)) :
              t \in AboutTexts}

InitField ==
    /\ catDir \in {[exists |-> TRUE, files |-> {f}] : f \in FieldArchives}
    /\ CatStart
    /\ InstIdle

\* a Catalog Builder run on a directory that holds one archive p.zip
SpecField == InitField /\ [][CatNext]_vars

\* an Installer run: python install_plugins.py
Init == InstInit /\ CatIdle

Next == InstNext

Spec == Init /\ [][Next]_vars

(***************************************************************************)
(* Installer properties                                                    *)
(***************************************************************************)
IsBegin(e) == e[1] = "begin"
IsOk(e) == e[1] = "ok"
IsFail(e) == e[1] = "fail"
IsEnd(e) == IsOk(e) \/ IsFail(e)

\* the archive as extracted into an empty directory
Pristine(z) == ExtractAll({}, <<>>, z.members).tree

\* the names at the root of the archive
TopEntries(z) == {n.path : n \in {m \in Pristine(z) : Len(m.path) = 1}}

\* C1: every enumerated archive is attempted exactly once, in enumeration
\* order, each to completion before the next starts; a raising install is
\* counted as a failure and the later archives are still attempted, so at
\* the end installed + failed is the number of enumerated archives.
C1_EachArchiveOnceInOrder ==
    LET begins == SelectSeq(log, IsBegin)
        ends == SelectSeq(log, IsEnd)
    IN  /\ \A j \in 1..Len(begins) : begins[j] = <<"begin", j>>
        /\ \A j \in 1..Len(ends) : ends[j][2] = j
        /\ Len(begins) <= Len(plugin_zips)
        /\ Len(ends) <= Len(begins) /\ Len(begins) <= Len(ends) + 1
        \* an attempt begins only right after the previous one has ended
        /\ \A p \in 2..Len(log) :
              IsBegin(log[p]) => IsEnd(log[p - 1]) /\ log[p - 1][2] + 1 = log[p][2]
        /\ \A p \in 1..Len(log) : IsBegin(log[p]) \/ p > 1
        /\ \A p \in 2..Len(log) : ~IsBegin(log[p]) => log[p][2] = log[p - 1][2]
        /\ installed = Len(SelectSeq(log, IsOk))
        /\ failed = Len(SelectSeq(log, IsFail))
        /\ pc = "done" => /\ Len(ends) = Len(plugin_zips)
                          /\ installed + failed = Len(plugin_zips)

\* a failed install was followed by a successful one, and the run is over
C1_Witness ==
    /\ pc = "done"
    /\ \E p, q \in 1..Len(log) : p < q /\ IsFail(log[p]) /\ IsOk(log[q])

\* C2: once the enumeration has succeeded, the exit status is 0 exactly when
\* no install raised and 1 exactly when at least one did.
C2_ExitStatusIffNoFailure ==
    pc = "done" =>
        LET anyRaised == \E p \in 1..Len(log) : IsFail(log[p])
        IN  /\ exitStatus = <<0>> <=> ~anyRaised
            /\ exitStatus = <<1>> <=> anyRaised

\* the run ended with status 1 although the last archive installed
C2_Witness ==
    /\ pc = "done"
    /\ exitStatus = <<1>>
    /\ IsOk(log[Len(log)])
    /\ Len(SelectSeq(log, IsFail)) = 1

\* C3 (as claimed): after a successful install of an archive whose
\* extracted tree has exactly one top-level directory D, the target root
\* holds a directory D with exactly the archive's payload for D, and the
\* temp wrapper is gone.
C3_SingleDirHoldsExactlyPayload ==
    (pc = "count" /\ ~Raised /\ plugin_dir # None) =>
        /\ PathIsDir(fs, final_dir)
        /\ Subtree(fs, final_dir) = Subtree(Pristine(Zip), final_dir)
        /\ ~PathExists(fs, TempDir(Zip.stem))

\* C4 (as claimed): after a successful install of an archive with more than
\* one top-level entry, the target root holds a directory named after the
\* archive stem that contains all of those entries.
C4_MultiEntryUnderStem ==
    (pc = "count" /\ ~Raised /\ Cardinality(TopEntries(Zip)) > 1) =>
        /\ PathIsDir(fs, <<Zip.stem>>)
        /\ Pristine(Zip) \subseteq Subtree(fs, <<Zip.stem>>)

\* C5: when install_plugin has finished for an archive, normally or by
\* raising at the extraction, delete or move step, no directory
\* _temp_<stem> is left under the target root; so when the run is over
\* there is none for any processed archive.
C5_NoTempDirLeft ==
    LET covered == {"", "extract", "delete", "move"}
    IN  \A j \in 1..Len(plugin_zips) :
            (\/ j = idx /\ pc = "count" /\ raisedAt \in covered
             \/ j < idx /\ \E p \in 1..Len(log) :
                               IsEnd(log[p]) /\ log[p][2] = j /\ log[p][3] \in covered)
            => ~PathIsDir(fs, TempDir(plugin_zips[j].stem))

\* install_plugin raised at the move step, after a full extraction
C5_Witness ==
    /\ pc = "count"
    /\ raisedAt = "move"
    /\ log[Len(log)] = <<"move", idx>>

\* a structural error of the run, in terms of its inputs
StructuralError ==
    \/ platform \notin {"Linux", "Darwin", "Windows"}
    \/ platform = "Windows" /\ appdata = None
    \/ ~repoPlugins.exists
    \/ \A k \in 1..Len(repoPlugins.files) : repoPlugins.files[k].suffix # ".zip"

\* C6: on an unsupported platform, on Windows without APPDATA, without the
\* repository's plugins directory or without any .zip in it, the run ends
\* with a non-zero status and no archive is extracted or installed.
C6_StructuralErrorsFatal ==
    StructuralError =>
        /\ pc \in {"start", "mkdir", "find", "exited"}
        /\ pc # "exited" => ENABLED InstNext
        /\ pc = "exited" => exitStatus = <<1>>
        /\ log = <<>> /\ installed = 0 /\ fs = fs0

\* the run ended on a plugins directory that holds a file but no archive
C6_Witness ==
    /\ pc = "exited"
    /\ platform = "Linux"
    /\ repoPlugins.exists
    /\ repoPlugins.files # <<>>

(***************************************************************************)
(* Catalog Builder properties                                              *)
(***************************************************************************)
HasDescriptor(f) ==
    \E k \in 1..Len(f.entries) : EndsWith(f.entries[k].name, MetadataTxt)

\* the descriptor parse_metadata reads
FirstDescriptor(f) ==
    f.entries[CHOOSE k \in 1..Len(f.entries) :
                 /\ EndsWith(f.entries[k].name, MetadataTxt)
                 /\ \A j \in 1..(k - 1) : ~EndsWith(f.entries[j].name, MetadataTxt)]

\* no descriptor entry, or one that cannot be read or parsed
Undescribed(f) ==
    \/ ~f.valid
    \/ ~HasDescriptor(f)
    \/ ~FirstDescriptor(f).content.decodes
    \/ ~FirstDescriptor(f).content.parses

\* a .zip whose descriptor is read, parsed and has a general section
Described(f) ==
    /\ EndsWith(f.filename, DotZip)
    /\ f.valid /\ HasDescriptor(f)
    /\ DateValid(FirstDescriptor(f).date)
    /\ FirstDescriptor(f).content.decodes
    /\ FirstDescriptor(f).content.parses
    /\ "general" \in DOMAIN FirstDescriptor(f).content.sections

XmlRecordsOf(f) ==
    {k \in 1..Len(xmlOut.records) : xmlOut.records[k].file_name = f.filename}
HtmlCardsOf(f) ==
    {k \in 1..Len(htmlOut.records) :
        htmlOut.records[k].filename = PLUGINS_DIR \o Slash \o f.filename}

\* C7: an archive without a descriptor entry, or whose descriptor cannot be
\* read or parsed, gets an empty mapping from parse_metadata and no record
\* in the XML or the HTML output; the other archives of the directory are
\* still processed.
C7_UndescribedArchiveSkipped ==
    \A f \in catDir.files :
        /\ Undescribed(f) =>
              /\ ParseMetadata(f) = EmptyMap
              /\ XmlRecordsOf(f) = {} /\ HtmlCardsOf(f) = {}
              /\ \A k \in 1..Len(plugins_data) : plugins_data[k]["zip_filename"] # f.filename
              /\ \A k \in 1..Len(plugins) :
                    plugins[k]["filename"] # PLUGINS_DIR \o Slash \o f.filename
        /\ Described(f) =>
              /\ xmlOut.written => Cardinality(XmlRecordsOf(f)) = 1
              /\ htmlOut.written => Cardinality(HtmlCardsOf(f)) = 1

\* the run is over on a directory that holds an archive with an undecodable
\* descriptor, listed before an archive with a good one
C7_Witness ==
    /\ cpc = "done"
    /\ catDir.files = {CatC, CatE}
    /\ Len(xmlOut.records) = 1 /\ Len(htmlOut.records) = 1

\* SpecIcon: the archive of the run, and what its descriptor declares
TheArchive == CHOOSE f \in catDir.files : TRUE
Declared == Get(FirstDescriptor(TheArchive).content.sections["general"], "icon", None)
DeclaredRel == PName \o Slash \o Declared

\* the entry the declared path names: relative to the plugin directory, else literal
DeclaredTarget ==
    IF InNameList(TheArchive, DeclaredRel) THEN DeclaredRel ELSE Declared

DeclaredMatches ==
    /\ Declared # None
    /\ InNameList(TheArchive, DeclaredRel) \/ InNameList(TheArchive, Declared)

\* the extension of the entry the declared path names, .png when it has none
DeclaredTargetExt ==
    IF Declared = <<"i", "m", "g", "/", "i", ".", "s", "v", "g">> THEN <<".", "s", "v", "g">> ELSE <<".", "p", "n", "g">>

\* the archive has been through the HTML pass
IconCallDone == cpc = "done" \/ (cpc = "html_scan" /\ cidx > 1)

\* the one file the call wrote, as the output directory and the card have it
WroteExactly(file, data) ==
    /\ Len(iconLog) = 1
    /\ iconLog[1].file = file /\ iconLog[1].data = data
    /\ iconsDir = {[file |-> file, data |-> data]}
    /\ plugins[1]["icon_path"] = ICONS_DIR \o Slash \o file

\* C8: a declared icon path that names an entry of the archive (as
\* <plugin>/<path>, else literally) has that entry's bytes copied to
\* <output-dir>/<plugin><ext> and that path returned, also when entries at
\* conventional locations exist.
C8_DeclaredIconWins ==
    (IconCallDone /\ DeclaredMatches) =>
        WroteExactly(PName \o DeclaredTargetExt,
                     DataOf(TheArchive, DeclaredTarget))

\* the declared entry comes last in an archive that also has icons at two
\* conventional locations
C8_Witness ==
    /\ cpc = "done"
    /\ TheArchive = IconArchive(<<PoolConv1, PoolConv5, PoolDeclaredRel>>, <<"i", "m", "g", "/", "i", ".", "p", "n", "g">>)

\* the six conventional locations for plugin p, png before svg
ConventionalOrder ==
    <<<<"p", "/", "i", "c", "o", "n", "s", "/", "i", "c", "o", "n", ".", "p", "n", "g">>,
      <<"p", "/", "i", "c", "o", "n", ".", "p", "n", "g">>,
      <<"p", "/", "i", "c", "o", "n", "s", "/", "p", ".", "p", "n", "g">>,
      <<"p", "/", "i", "c", "o", "n", "s", "/", "i", "c", "o", "n", ".", "s", "v", "g">>,
      <<"p", "/", "i", "c", "o", "n", ".", "s", "v", "g">>,
      <<"p", "/", "i", "c", "o", "n", "s", "/", "p", ".", "s", "v", "g">>>>

ConventionalPresent ==
    {k \in 1..Len(ConventionalOrder) : InNameList(TheArchive, ConventionalOrder[k])}

\* an entry that only the generic scan matches
ScanOnlyPresent ==
    \E e \in {PoolScanPng, PoolScanSvg, PoolScanDir} : InNameList(TheArchive, e.name)

\* C9: with no declared icon path matching, an archive that has an entry at
\* a conventional location and an entry only the generic scan matches gets
\* the conventional entry (the earliest of the fixed list) extracted,
\* whatever the order of its entries.
C9_ConventionalBeforeScan ==
    (IconCallDone /\ ~DeclaredMatches /\ ConventionalPresent # {} /\ ScanOnlyPresent) =>
        LET first == CHOOSE k \in ConventionalPresent :
                         \A j \in ConventionalPresent : k <= j
            name == ConventionalOrder[first]
        IN  WroteExactly(PName \o (IF EndsWith(name, DotPng) THEN DotPng ELSE DotSvg),
                         DataOf(TheArchive, name))

\* scan-only entries come first in the archive, then an svg and a png at
\* conventional locations
C9_Witness ==
    /\ cpc = "done"
    /\ TheArchive = IconArchive(<<PoolScanPng, PoolConv5, PoolConv1>>, None)

\* C10: in one Catalog Builder run each call of the Icon Extractor writes
\* zero or one file, for the first rule that matches, and nothing later in
\* the run overwrites it.
C10_AtMostOneIconPerPlugin ==
    /\ \A c \in 1..Len(Listing) :
          Cardinality({k \in 1..Len(iconLog) : iconLog[k].call = c}) <= 1
    /\ \A k \in 1..Len(iconLog) :
          /\ [file |-> iconLog[k].file, data |-> iconLog[k].data] \in iconsDir
          /\ \A j \in 1..Len(iconLog) : j # k => iconLog[j].file # iconLog[k].file
    /\ Cardinality(iconsDir) = Len(iconLog)

\* both archives of the run match two rules each
C10_Witness ==
    /\ cpc = "done"
    /\ catDir.files = {CatA, CatE}
    /\ Len(iconLog) = 2

\* the lower-cased names of two records are in order
NameOrdered(a, b) == ~StrLess(Lower(b["name"]), Lower(a["name"]))

\* the records of list that have a name are in non-decreasing order of it
NamedInOrder(list) ==
    \A i, j \in 1..Len(list) :
        (i < j /\ "name" \in DOMAIN list[i] /\ "name" \in DOMAIN list[j])
            => NameOrdered(list[i], list[j])

\* C11: in the XML and in the HTML output the records that have a name
\* appear in non-decreasing order of their lower-cased name, whatever the
\* archive file names are.
C11_NamedRecordsSorted ==
    /\ xmlOut.written =>
          /\ Len(xmlOut.records) = Len(plugins_data)
          /\ \A k \in 1..Len(plugins_data) :
                xmlOut.records[k].file_name = plugins_data[k]["zip_filename"]
          /\ NamedInOrder(plugins_data)
    /\ htmlOut.written =>
          /\ Len(htmlOut.records) = Len(plugins)
          /\ \A k \in 1..Len(plugins) :
                htmlOut.records[k].filename = plugins[k]["filename"]
          /\ NamedInOrder(plugins)

\* a.zip is named zeta and j.zip is named Zulu: zeta comes first in both outputs
C11_Witness ==
    /\ cpc = "done"
    /\ catDir.files = {CatA, CatJ}
    /\ xmlOut.records[1].file_name = CatA.filename
    /\ htmlOut.records[2].name = CatJ.entries[1].content.sections["general"]["name"]

\* the lower-cased name of a record, a record without a name standing in
\* with what the output displays for it
KeyXml(p) == Lower(Get(p, "name", Unknown))
KeyHtml(p) == Lower(Get(p, "name", p["filename"]))

NamelessFirst(list, file) ==
    \A i, j \in 1..Len(list) :
        /\ ("name" \notin DOMAIN list[i] /\ "name" \in DOMAIN list[j]
            /\ list[j]["name"] # <<>>) => i < j
        /\ ("name" \notin DOMAIN list[i] /\ "name" \notin DOMAIN list[j]
            /\ StrLess(list[i][file], list[j][file])) => i < j

RealTags(tags) ==
    LET parts == Split(tags)
    IN  SelectSeq([k \in 1..Len(parts) |-> Strip(parts[k])], IsTag)

\* C13: a card shows at most 5 badges, none of them blank, and they are the
\* first min(5, n) of the n non-empty trimmed entries of the comma-split
\* tags field, in order.
C13_FirstFiveRealTags ==
    htmlOut.written =>
        \A k \in 1..Len(plugins) :
            LET badges == htmlOut.records[k].tag_badges
            IN  /\ Len(badges) <= 5
                /\ \A i \in 1..Len(badges) : badges[i] # <<>>
                /\ badges = Take(RealTags(Get(plugins[k], "tags", <<>>)), 5)

\* what one character of the source becomes in the about element
Escaped(c) ==
    CASE c = "&" -> <<"&", "a", "m", "p", ";">>
      [] c = "<" -> <<"&", "l", "t", ";">>
      [] c = ">" -> <<"&", "g", "t", ";">>
      [] OTHER -> <<c>>

RECURSIVE EscapedText(_)
EscapedText(t) ==
    IF t = <<>> THEN <<>> ELSE Escaped(Head(t)) \o EscapedText(Tail(t))

\* the text the about element is made from: about, else the description
AboutSource(p) ==
    IF "about" \in DOMAIN p THEN p["about"]
    ELSE IF "description" \in DOMAIN p THEN p["description"]
    ELSE NoDescription

\* C14: in the about element every & of the source is &amp;, every < is
\* &lt; and every > is &gt;, the ampersands put in are not escaped again and
\* quote characters are unchanged, also when the description stands in for
\* an absent about.
C14_AboutEscapedOnce ==
    xmlOut.written =>
        \A k \in 1..Len(plugins_data) :
            xmlOut.records[k].about = EscapedText(AboutSource(plugins_data[k]))

\* the description &'> stands in for the absent about and is written &amp;'&gt;
C14_Witness ==
    /\ cpc = "done"
    /\ Len(plugins_data) = 1
    /\ "about" \notin DOMAIN plugins_data[1]
    /\ "description" \in DOMAIN plugins_data[1]
    /\ plugins_data[1]["description"] = <<"&", "'", ">">>
    /\ xmlOut.records[1].about =
          <<"&", "a", "m", "p", ";", "'", "&", "g", "t", ";">>

\* the positions of the archive's entries that a rule of the scan matches
EndingIn(suffix) ==
    {k \in 1..Len(TheArchive.entries) : EndsWith(TheArchive.entries[k].name, suffix)}

UnderIcons ==
    {k \in 1..Len(TheArchive.entries) :
        LET name == TheArchive.entries[k].name
        IN  /\ Contains(name, SlashIcons)
            /\ EndsWith(name, DotPng) \/ EndsWith(name, DotSvg)
            /\ \A skip \in SkipWords : ~Contains(Lower(name), skip)}

\* the first entry among positions S is written with the extension of its rule
WroteFirstOf(S, extension) ==
    LET k == CHOOSE i \in S : \A j \in S : i <= j
    IN  WroteExactly(PName \o extension, TheArchive.entries[k].data)

\* C15: with no declared and no conventional location matching, the icon is
\* the first entry ending in icon.png if there is one, else the first ending
\* in icon.svg, and only then the first .png or .svg under /icons/ whose
\* name has none of about, settings, logo; wherever the entries sit in the
\* archive.
C15_ScanByRulePriority ==
    (IconCallDone /\ ~DeclaredMatches /\ ConventionalPresent = {}) =>
        IF EndingIn(IconPng) # {} THEN WroteFirstOf(EndingIn(IconPng), DotPng)
        ELSE IF EndingIn(IconSvg) # {} THEN WroteFirstOf(EndingIn(IconSvg), DotSvg)
        ELSE IF UnderIcons # {}
             THEN LET k == CHOOSE i \in UnderIcons : \A j \in UnderIcons : i <= j
                  IN  WroteFirstOf(UnderIcons,
                                   IF EndsWith(TheArchive.entries[k].name, DotSvg)
                                   THEN DotSvg ELSE DotPng)
        ELSE iconLog = <<>> /\ plugins[1]["icon_path"] = None

\* C16: when the install of an archive fails during extraction, every
\* directory already installed under the target root, also one named like
\* the archive's payload or stem, is as it was when the install began; the
\* only effect of the attempt is that _temp_<archive-stem> is gone.
C16_FailedExtractionKeepsInstalls ==
    (pc = "count" /\ raisedAt = "extract") =>
        fs = {n \in fsBegin : ~IsPrefix(<<"_temp_" \o Zip.stem>>, n.path)}

\* the extraction of z.zip failed after its first member, with an earlier
\* install of z in the target root
C16_Witness ==
    /\ pc = "count" /\ raisedAt = "extract"
    /\ Zip = ZipZ
    /\ faults > 0
    /\ PathIsDir(fsBegin, <<"z">>)
    /\ PathIsDir(fs, <<"z">>)

\* the archive of the directory that a retained record was made from
ArchiveOf(filename) ==
    CHOOSE f \in catDir.files : PLUGINS_DIR \o Slash \o f.filename = filename

\* C17: every non-empty mapping of parse_metadata holds the timestamp of
\* the descriptor entry, also when the general section has no keys, so the
\* display date of every retained record is that timestamp and never the
\* modification time of the archive file.
C17_DisplayDateFromDescriptor ==
    /\ \A f \in catDir.files :
          /\ NonEmpty(ParseMetadata(f)) =>
                /\ "_metadata_date" \in DOMAIN ParseMetadata(f)
                /\ ParseMetadata(f)["_metadata_date"] = FirstDescriptor(f).date
          /\ Described(f) => NonEmpty(ParseMetadata(f))
    /\ \A k \in 1..Len(plugins) :
          LET f == ArchiveOf(plugins[k]["filename"])
          IN  /\ plugins[k]["modified"] = Strftime(FirstDescriptor(f).date)
              /\ plugins[k]["modified"] # Strftime(f.mtime)
    /\ htmlOut.written =>
          \A k \in 1..Len(plugins) :
              htmlOut.records[k].modified = plugins[k]["modified"]

\* k.zip, whose general section has no keys, is retained and dated 2022-07-04
C17_Witness ==
    /\ cpc = "done"
    /\ catDir.files = {CatK}
    /\ Len(htmlOut.records) = 1
    /\ htmlOut.records[1].modified = <<"2", "0", "2", "2", "-", "0", "7", "-", "0", "4">>

====
